---- MODULE Spec2Model ----
(***************************************************************************)
(* Model of the StreamAlert CLI Athena handler                             *)
(* (stream_alert_cli/athena/handler.py): the schema-to-DDL translator and  *)
(* the table lifecycle operations create_table, rebuild_partitions,        *)
(* drop_all_tables and create_log_tables.                                  *)
(*                                                                         *)
(* Text is modelled as a sequence of pieces whose concatenation is the     *)
(* Python string: names, types and user input are sequences of one         *)
(* character strings, the literal parts of a format template are one       *)
(* piece each.                                                             *)
(***************************************************************************)
EXTENDS Integers, Sequences, FiniteSets, TLC

VARIABLES
    tables,      \* Athena database: the sanitized names of the tables that exist
    parts,       \* Athena database: table name -> its set of partitions
    buckets,     \* config['lambda']['athena_partition_refresh_config']['buckets']
    persisted,   \* the buckets of the configuration last flushed by config.write()
    firehose,    \* config['global']['infrastructure']['firehose']['enabled']
    logs,        \* config['logs']: log name -> [schema, envelope_keys]
    files,       \* the local files the command has written: file name -> contents
    op,          \* the last operation run and its arguments
    calls,       \* the calls the last operation made, in order, with their results
    writes,      \* number of config.write() calls the last operation made
    result,      \* what the last operation returned (or the exception it raised)
    stmt         \* the last statement built by _construct_create_table_statement

vars == <<tables, parts, buckets, persisted, firehose, logs, files, op, calls,
          writes, result, stmt>>

(***************************************************************************)
(* Bounds of the model.                                                    *)
(***************************************************************************)
MaxSchemaKeys == 3
MaxSubKeys == 2
BigPartitions == 3500

(***************************************************************************)
(* Text.                                                                   *)
(***************************************************************************)
\* The grave accent (0x60) that quotes a column name; a TLA+ string cannot hold it.
Backtick == "GRAVE"

\* The characters the model uses, in the order Python's str comparison gives them.
Alphabet == <<".", ":", "=", "_", Backtick, "a", "b", "c", "d", "e", "f", "g", "h",
              "i", "j", "k", "l", "m", "n", "o", "p", "q", "r", "s", "t", "u", "v",
              "w", "x", "y", "z">>

Ord(c) == CHOOSE i \in 1..Len(Alphabet) : Alphabet[i] = c

\* a < b for Python strings: the first differing character decides, a proper
\* prefix is smaller.
StrLess(a, b) ==
    \E i \in 1..(Len(a) + 1) :
        /\ i <= Len(b)
        /\ \A j \in 1..(i - 1) : a[j] = b[j]
        /\ (i = Len(a) + 1 \/ Ord(a[i]) < Ord(b[i]))

\* Mutant of sorted: the keys in reverse order.
RECURSIVE sorted_reversed(_)
sorted_reversed(S) ==
    IF S = {} THEN <<>>
    ELSE LET m == CHOOSE k \in S : \A o \in S \ {k} : StrLess(o, k)
         IN  <<m>> \o sorted_reversed(S \ {m})

\* sorted(keys), by repeatedly taking the least key.
RECURSIVE sorted(_)
sorted(S) ==
    IF S = {} THEN <<>>
    ELSE LET m == CHOOSE k \in S : \A o \in S \ {k} : StrLess(k, o)
         IN  <<m>> \o sorted(S \ {m})

\* sep.join(items)
RECURSIVE join(_, _)
join(sep, items) ==
    IF items = <<>> THEN <<>>
    ELSE IF Len(items) = 1 THEN items[1]
    ELSE items[1] \o sep \o join(sep, Tail(items))

(***************************************************************************)
(* Schema values.  An Athena schema maps a column name to a value that is  *)
(* a str (tag "str", the type in .type), a dict (tag "dict", the sub-keys  *)
(* and their types in .sub) or anything else (tag "other").                *)
(***************************************************************************)
StrValue(t) == [tag |-> "str", type |-> t, sub |-> <<>>]
DictValue(d) == [tag |-> "dict", type |-> <<>>, sub |-> d]
OtherValue == [tag |-> "other", type |-> <<>>, sub |-> <<>>]

(***************************************************************************)
(* The schema translator.                                                  *)
(***************************************************************************)
CREATE_TABLE_STATEMENT(table_name, schema, bucket) ==
    <<"CREATE EXTERNAL TABLE ">> \o table_name \o <<" (">> \o schema
        \o <<") PARTITIONED BY (dt string) STORED AS PARQUET LOCATION 's3://">>
        \o bucket \o <<"/">> \o table_name \o <<"/'">>

MAX_QUERY_LENGTH == 262144

\* ', '.join('{0}:{1}'.format(sub_key, key_type[sub_key]) for sub_key in sorted(...))
struct_schema(key_type) ==
    LET ks == sorted(DOMAIN key_type)
    IN  join(<<", ">>, [i \in 1..Len(ks) |-> ks[i] \o <<":">> \o key_type[ks[i]]])

\* The list schema_statement built by the loop over sorted(schema.keys()).
RECURSIVE schema_statement_loop(_, _)
schema_statement_loop(schema, keys) ==
    IF keys = <<>> THEN <<>>
    ELSE LET key_name == Head(keys)
             key_type == schema[key_name]
             entry == IF key_type.tag = "str"
                          THEN << key_name \o <<" ">> \o key_type.type >>
                      ELSE IF key_type.tag = "dict"
                          THEN << key_name \o <<" struct<">>
                                    \o struct_schema(key_type.sub) \o <<">">> >>
                      ELSE <<>>
         IN  entry \o schema_statement_loop(schema, Tail(keys))

schema_statement(schema) == schema_statement_loop(schema, sorted(DOMAIN schema))

construct_create_table_statement(schema, table_name, bucket) ==
    CREATE_TABLE_STATEMENT(table_name, join(<<", ">>, schema_statement(schema)), bucket)

(***************************************************************************)
(* Names and configuration.                                                *)
(***************************************************************************)
ALERTS == <<"a", "l", "e", "r", "t", "s">>
TypeString == <<"s", "t", "r", "i", "n", "g">>
TypeInteger == <<"i", "n", "t", "e", "g", "e", "r">>
TypeBigint == <<"b", "i", "g", "i", "n", "t">>
TypeInt == <<"i", "n", "t">>
ENVELOPE_KEYS == <<Backtick, "s", "t", "r", "e", "a", "m", "a", "l", "e", "r", "t", ":",
                   "e", "n", "v", "e", "l", "o", "p", "e", "_", "k", "e", "y", "s",
                   Backtick>>

\* The characters of [a-zA-Z0-9_] the model uses: every other one is special.
WordChars == {"_", "a", "b", "c", "d", "e", "f", "g", "h", "i", "j", "k", "l", "m", "n",
              "o", "p", "q", "r", "s", "t", "u", "v", "w", "x", "y", "z"}

\* FirehoseClient.firehose_log_name: every special character becomes '_'.
firehose_log_name(name) ==
    [i \in 1..Len(name) |-> IF name[i] \in WordChars THEN name[i] ELSE "_"]

\* FirehoseClient.sanitize_keys: the keys sanitized, those of nested dicts too.
sanitize_keys(record) ==
    LET san(d) == [k \in {firehose_log_name(x) : x \in DOMAIN d} |->
                      d[CHOOSE x \in DOMAIN d : firehose_log_name(x) = k]]
        top == san(record)
    IN  [k \in DOMAIN top |->
            IF top[k].tag = "dict" THEN DictValue(san(top[k].sub)) ELSE top[k]]

\* helpers.logs_schema_to_athena_schema: the keys quoted, the log types mapped to
\* Athena types, a nested schema converted the same way.
athena_type(t) == IF t = TypeInteger THEN TypeBigint ELSE t

quoted(name) == <<Backtick>> \o name \o <<Backtick>>

logs_schema_to_athena_schema(log_schema) ==
    LET conv(d) == [k \in {quoted(x) : x \in DOMAIN d} |->
                       athena_type(d[CHOOSE x \in DOMAIN d : quoted(x) = k])]
    IN  [k \in {quoted(x) : x \in DOMAIN log_schema} |->
            LET v == log_schema[CHOOSE x \in DOMAIN log_schema : quoted(x) = k]
            IN  IF v.tag = "dict" THEN DictValue(conv(v.sub))
                ELSE StrValue(athena_type(v.type))]

\* FirehoseClient.load_enabled_log_sources: the enabled logs, keyed by their
\* sanitized names.
load_enabled_log_sources(log_sources) ==
    {firehose_log_name(l) : l \in DOMAIN log_sources}

\* table.replace('_', ':', 1)
replace_first_underscore(table) ==
    IF \E i \in 1..Len(table) : table[i] = "_"
    THEN LET p == CHOOSE i \in 1..Len(table) :
                      table[i] = "_" /\ \A j \in 1..(i - 1) : table[j] # "_"
         IN  [i \in 1..Len(table) |-> IF i = p THEN ":" ELSE table[i]]
    ELSE table

\* override.split('='): the pieces between the '=' characters.
RECURSIVE split_eq(_)
split_eq(s) ==
    IF \E i \in 1..Len(s) : s[i] = "="
    THEN LET p == CHOOSE i \in 1..Len(s) :
                      s[i] = "=" /\ \A j \in 1..(i - 1) : s[j] # "="
         IN  <<SubSeq(s, 1, p - 1)>> \o split_eq(SubSeq(s, p + 1, Len(s)))
    ELSE <<s>>

\* The schema of the alerts table: Alert('temp_rule_name', {}, {}).output_dict()
\* through record_to_schema and logs_schema_to_athena_schema.
AlertsAthenaSchema ==
    (quoted(<<"i", "d">>) :> StrValue(TypeString)) @@
    (quoted(<<"r", "u", "l", "e">>) :> StrValue(TypeString)) @@
    (quoted(<<"r", "e", "c", "o", "r", "d">>) :>
        DictValue(quoted(<<"k">>) :> TypeString))

\* The log sources of the model's configurations.
LogCE == <<"c", ":", "e">>
LogUT == <<"u", "_", "t">>

SchemaCE == (<<"h">> :> StrValue(TypeString)) @@ (<<"d", ".", "x">> :> StrValue(TypeInteger))
SchemaUT == (<<"n">> :> StrValue(TypeString))

\* config['logs'] with every log name of the form type:subtype without
\* underscores, and with a log whose name holds an underscore.
LogsPlain == (LogCE :> [schema |-> SchemaCE,
                        envelope_keys |-> (<<"s">> :> StrValue(TypeString))])
LogsUnderscore == LogsPlain @@ (LogUT :> [schema |-> SchemaUT, envelope_keys |-> <<>>])

LogConfigs == {LogsPlain, LogsUnderscore}

(***************************************************************************)
(* The world an operation runs in: the Athena database (tables, parts),    *)
(* the loaded configuration (logs, firehose, buckets), the configuration   *)
(* on disk (persisted) and what the operation has done so far (calls,      *)
(* writes, files, stmt).                                                   *)
(***************************************************************************)
Call(fn, arg, ret) == [fn |-> fn, arg |-> arg, ret |-> ret]

Log(w, c) == [w EXCEPT !.calls = Append(@, c)]

Bool(b) == IF b THEN "True" ELSE "False"

Return(ret, w) == [ret |-> ret, w |-> w]

NoStmt == [schema |-> <<>>, table_name |-> <<>>, bucket |-> <<>>, text |-> <<>>]

(***************************************************************************)
(* The Athena client.  An operation's oracle o says which of its queries   *)
(* the service executes successfully.                                      *)
(***************************************************************************)
get_athena_client(w) == Log(w, Call("get_athena_client", <<>>, "AthenaClient"))

\* AthenaClient.check_table_exists: true when the SHOW TABLES query ran and found
\* the table.
check_table_exists(w, name, o) == o.exists_ok /\ name \in w.tables

\* AthenaClient.run_query of a CREATE EXTERNAL TABLE statement: it fails when the
\* service fails or the table exists already; the new table has no partitions.
run_create_query(w, query, name, o) ==
    LET success == o.query_ok /\ name \notin w.tables
        w1 == Log(w, Call("run_query", [kind |-> "CREATE", text |-> query],
                          Bool(success)))
    IN  IF success
        THEN Return("True", [w1 EXCEPT !.tables = @ \cup {name},
                                       !.parts = [@ EXCEPT ![name] = {}]])
        ELSE Return("False", w1)

\* AthenaClient.get_table_partitions: the partitions of the table; none when the
\* query fails or the table does not exist.
get_table_partitions(w, name, o) ==
    IF o.fetch_ok /\ name \in w.tables THEN w.parts[name] ELSE {}

\* AthenaClient.drop_table: DROP TABLE IF EXISTS; the partitions go with the table.
drop_table(w, name, o) ==
    LET w1 == Log(w, Call("drop_table", name, Bool(o.drop_ok)))
    IN  IF o.drop_ok
        THEN Return("True", [w1 EXCEPT !.tables = @ \ {name},
                                       !.parts = [@ EXCEPT ![name] = {}]])
        ELSE Return("False", w1)

(***************************************************************************)
(* create_table                                                            *)
(***************************************************************************)
\* Mutant of apply_override: the column is set without the test that it exists.
apply_override_adding_column(athena_schema, override) ==
    LET pieces == split_eq(override)
    IN  IF Len(pieces) # 2
        THEN [raised |-> TRUE, schema |-> athena_schema]
        ELSE [raised |-> FALSE,
              schema |-> (quoted(pieces[1]) :> StrValue(pieces[2])) @@ athena_schema]

\* One iteration of the loop over schema_override.
apply_override(athena_schema, override) ==
    LET pieces == split_eq(override)
    IN  IF Len(pieces) # 2
        THEN [raised |-> TRUE, schema |-> athena_schema]
        ELSE LET column_name == quoted(pieces[1])
                 column_type == pieces[2]
             IN  IF column_name \in DOMAIN athena_schema
                 THEN [raised |-> FALSE,
                       schema |-> [athena_schema EXCEPT
                                      ![column_name] = StrValue(column_type)]]
                 ELSE [raised |-> FALSE, schema |-> athena_schema]

RECURSIVE apply_overrides(_, _)
apply_overrides(athena_schema, schema_override) ==
    IF schema_override = <<>>
    THEN [raised |-> FALSE, schema |-> athena_schema]
    ELSE LET one == apply_override(athena_schema, Head(schema_override))
         IN  IF one.raised THEN one
             ELSE apply_overrides(one.schema, Tail(schema_override))

\* The Athena schema of a log type, with its envelope keys.
log_athena_schema(log_info) ==
    LET athena_schema == logs_schema_to_athena_schema(sanitize_keys(log_info.schema))
    IN  IF DOMAIN log_info.envelope_keys # {}
        THEN (ENVELOPE_KEYS :>
                 DictValue([k \in DOMAIN logs_schema_to_athena_schema(
                                      sanitize_keys(log_info.envelope_keys)) |->
                               logs_schema_to_athena_schema(
                                   sanitize_keys(log_info.envelope_keys))[k].type]))
             @@ athena_schema
        ELSE athena_schema

\* Mutant of create_table_run: the bucket of the alerts table is registered too.
create_table_run_registering_alerts(table, bucket, w, o, schema, table_name) ==
    LET query == construct_create_table_statement(schema, table_name, bucket)
        w1 == [w EXCEPT !.stmt = [schema |-> schema, table_name |-> table_name,
                                  bucket |-> bucket, text |-> query]]
        ran == run_create_query(w1, query, table_name, o)
    IN  IF ran.ret # "True" THEN Return("False", ran.w)
        ELSE IF bucket \notin DOMAIN ran.w.buckets
        THEN LET registered == (bucket :> "data") @@ ran.w.buckets
             IN  Return("True", [ran.w EXCEPT !.buckets = registered,
                                              !.persisted = registered,
                                              !.writes = @ + 1])
        ELSE Return("True", ran.w)

\* The end of create_table: the CREATE query and the update of the configuration.
create_table_run(table, bucket, w, o, schema, table_name) ==
    LET query == construct_create_table_statement(schema, table_name, bucket)
        w1 == [w EXCEPT !.stmt = [schema |-> schema, table_name |-> table_name,
                                  bucket |-> bucket, text |-> query]]
        ran == run_create_query(w1, query, table_name, o)
    IN  IF ran.ret # "True" THEN Return("False", ran.w)
        ELSE IF table # ALERTS /\ bucket \notin DOMAIN ran.w.buckets
        THEN LET registered == (bucket :> "data") @@ ran.w.buckets
             IN  Return("True", [ran.w EXCEPT !.buckets = registered,
                                              !.persisted = registered,
                                              !.writes = @ + 1])
        ELSE Return("True", ran.w)

\* create_table from the point where the table is known not to exist.
create_table_build(table, bucket, schema_override, w, o) ==
    IF table = ALERTS
    THEN create_table_run(table, bucket, w, o, AlertsAthenaSchema, table)
    ELSE IF replace_first_underscore(table) \notin DOMAIN w.logs
    THEN Return("KeyError", w)
    ELSE LET log_info == w.logs[replace_first_underscore(table)]
             overridden == apply_overrides(log_athena_schema(log_info), schema_override)
         IN  IF overridden.raised THEN Return("ValueError", w)
             ELSE create_table_run(table, bucket, w, o, overridden.schema,
                                   firehose_log_name(table))

\* Mutant of create_table: the result of check_table_exists is not looked at.
create_table_ignoring_exists(table, bucket, schema_override, w, o) ==
    LET enabled_logs == load_enabled_log_sources(w.logs)
        sanitized_table_name == firehose_log_name(table)
    IN  IF sanitized_table_name # ALERTS /\ sanitized_table_name \notin enabled_logs
        THEN Return("False", w)
        ELSE LET w1 == get_athena_client(w)
                 exists == check_table_exists(w1, sanitized_table_name, o)
                 w2 == Log(w1, Call("check_table_exists", sanitized_table_name,
                                    Bool(exists)))
             IN  create_table_build(table, bucket, schema_override, w2, o)

create_table(table, bucket, schema_override, w, o) ==
    LET enabled_logs == load_enabled_log_sources(w.logs)
        sanitized_table_name == firehose_log_name(table)
    IN  IF sanitized_table_name # ALERTS /\ sanitized_table_name \notin enabled_logs
        THEN Return("False", w)
        ELSE LET w1 == get_athena_client(w)
                 exists == check_table_exists(w1, sanitized_table_name, o)
                 w2 == Log(w1, Call("check_table_exists", sanitized_table_name,
                                    Bool(exists)))
             IN  IF exists THEN Return("False", w2)
                 ELSE create_table_build(table, bucket, schema_override, w2, o)

\* A call of create_table from another operation, entered in the call log.
call_create_table(table, bucket, schema_override, w, o) ==
    LET ret == create_table(table, bucket, schema_override, w, o).ret
        args == [table |-> table, bucket |-> bucket, schema_override |-> schema_override]
    IN  create_table(table, bucket, schema_override,
                     Log(w, Call("create_table", args, ret)), o)

(***************************************************************************)
(* rebuild_partitions                                                      *)
(***************************************************************************)
\* helpers.add_partition_statement: ALTER TABLE <table> ADD IF NOT EXISTS followed
\* by one PARTITION (dt = '...') LOCATION 's3://<bucket>/<table>/...' clause for
\* each partition, joined by spaces.
AlterHeadLength == 31
PartitionClauseLength == 64

add_partition_statement(partitions, bucket, table_name) ==
    [kind |-> "ALTER", table_name |-> table_name,
     bucket |-> bucket, partitions |-> partitions]

\* len(new_partitions_statement)
statement_length(statement) ==
    LET n == Cardinality(statement.partitions)
    IN  AlterHeadLength + Len(statement.table_name)
          + n * (PartitionClauseLength + Len(statement.bucket)
                   + Len(statement.table_name))
          + (IF n > 0 THEN n - 1 ELSE 0)

\* AthenaClient.run_query of the ALTER statement: on success the table has the
\* partitions the statement names.
run_alter_query(w, statement, o) ==
    LET success == o.alter_ok /\ statement.table_name \in w.tables
        w1 == Log(w, Call("run_query", statement, Bool(success)))
    IN  IF success
        THEN Return("True", [w1 EXCEPT !.parts = [@ EXCEPT ![statement.table_name] =
                                                     @ \cup statement.partitions]])
        ELSE Return("False", w1)

\* Mutant of rebuild_partitions_add: the statement is built from the partitions the
\* table has now.
rebuild_partitions_add_refetched(partitions, bucket, sanitized_table_name, w, o) ==
    LET new_partitions_statement ==
            add_partition_statement(get_table_partitions(w, sanitized_table_name, o),
                                    bucket, sanitized_table_name)
    IN  IF statement_length(new_partitions_statement) > MAX_QUERY_LENGTH
        THEN LET file_name == <<"partitions_">> \o sanitized_table_name \o <<".txt">>
             IN  Return("False",
                        [w EXCEPT !.files = (file_name :> new_partitions_statement) @@ @])
        ELSE run_alter_query(w, new_partitions_statement, o)

\* Mutant of rebuild_partitions_add: the statement is written to the file when it
\* is too long, and run all the same.
rebuild_partitions_add_no_return(partitions, bucket, sanitized_table_name, w, o) ==
    LET new_partitions_statement ==
            add_partition_statement(partitions, bucket, sanitized_table_name)
    IN  IF statement_length(new_partitions_statement) > MAX_QUERY_LENGTH
        THEN LET file_name == <<"partitions_">> \o sanitized_table_name \o <<".txt">>
             IN  run_alter_query(
                     [w EXCEPT !.files = (file_name :> new_partitions_statement) @@ @],
                     new_partitions_statement, o)
        ELSE run_alter_query(w, new_partitions_statement, o)

\* rebuild_partitions from the point where the table has been created again.
rebuild_partitions_add(partitions, bucket, sanitized_table_name, w, o) ==
    LET new_partitions_statement ==
            add_partition_statement(partitions, bucket, sanitized_table_name)
    IN  IF statement_length(new_partitions_statement) > MAX_QUERY_LENGTH
        THEN LET file_name == <<"partitions_">> \o sanitized_table_name \o <<".txt">>
             IN  Return("False",
                        [w EXCEPT !.files = (file_name :> new_partitions_statement) @@ @])
        ELSE run_alter_query(w, new_partitions_statement, o)

\* Mutant of rebuild_partitions_drop: the partitions are added whatever
\* create_table returned.
rebuild_partitions_drop_ignoring_create(table, bucket, partitions, w, o) ==
    LET sanitized_table_name == firehose_log_name(table)
        dropped == drop_table(w, sanitized_table_name, o)
    IN  IF dropped.ret # "True" THEN Return("False", dropped.w)
        ELSE LET created == call_create_table(table, bucket, <<>>, dropped.w, o)
             IN  IF created.ret \in {"KeyError", "ValueError"} THEN created
                 ELSE rebuild_partitions_add(partitions, bucket, sanitized_table_name,
                                             created.w, o)

\* rebuild_partitions from the point where the partitions have been fetched.
rebuild_partitions_drop(table, bucket, partitions, w, o) ==
    LET sanitized_table_name == firehose_log_name(table)
        dropped == drop_table(w, sanitized_table_name, o)
    IN  IF dropped.ret # "True" THEN Return("False", dropped.w)
        ELSE LET created == call_create_table(table, bucket, <<>>, dropped.w, o)
             IN  IF created.ret # "True" THEN created
                 ELSE rebuild_partitions_add(partitions, bucket, sanitized_table_name,
                                             created.w, o)

\* Mutant of rebuild_partitions: the table is dropped even when it has no partitions.
rebuild_partitions_without_empty_check(table, bucket, w, o) ==
    LET sanitized_table_name == firehose_log_name(table)
        w1 == get_athena_client(w)
        partitions == get_table_partitions(w1, sanitized_table_name, o)
        w2 == Log(w1, Call("get_table_partitions", sanitized_table_name, partitions))
    IN  rebuild_partitions_drop(table, bucket, partitions, w2, o)

rebuild_partitions(table, bucket, w, o) ==
    LET sanitized_table_name == firehose_log_name(table)
        w1 == get_athena_client(w)
        partitions == get_table_partitions(w1, sanitized_table_name, o)
        w2 == Log(w1, Call("get_table_partitions", sanitized_table_name, partitions))
    IN  IF partitions = {} THEN Return("False", w2)
        ELSE rebuild_partitions_drop(table, bucket, partitions, w2, o)

(***************************************************************************)
(* drop_all_tables                                                         *)
(***************************************************************************)
\* AthenaClient.drop_all_tables: true when every table was dropped; o.remaining
\* are the tables a failed call leaves.
client_drop_all_tables(w, o) ==
    LET left == IF o.drop_ok THEN {} ELSE o.remaining \cap w.tables
        w1 == Log(w, Call("drop_all_tables", <<>>, Bool(o.drop_ok)))
    IN  Return(Bool(o.drop_ok),
               [w1 EXCEPT !.tables = left,
                          !.parts = [t \in DOMAIN @ |-> IF t \in left THEN @[t] ELSE {}]])

\* continue_prompt: the user answers o.confirmed.
continue_prompt(w, o) == Log(w, Call("continue_prompt", <<>>, Bool(o.confirmed)))

\* Mutant of drop_all_tables: the answer to the prompt is not looked at.
drop_all_tables_unconfirmed(w, o) ==
    LET w1 == continue_prompt(w, o)
        dropped == client_drop_all_tables(get_athena_client(w1), o)
    IN  IF dropped.ret # "True" THEN Return("False", dropped.w)
        ELSE Return("True", dropped.w)

drop_all_tables(w, o) ==
    LET w1 == continue_prompt(w, o)
    IN  IF ~o.confirmed THEN Return("False", w1)
        ELSE LET dropped == client_drop_all_tables(get_athena_client(w1), o)
             IN  IF dropped.ret # "True" THEN Return("False", dropped.w)
                 ELSE Return("True", dropped.w)

(***************************************************************************)
(* create_log_tables                                                       *)
(***************************************************************************)
\* '{}.{}'.format(prefix, firehose_s3_bucket_suffix), with the default suffix.
Prefix == <<"p">>
firehose_s3_bucket_name ==
    Prefix \o <<".">> \o <<"s", "t", "r", "e", "a", "m", "a", "l", "e", "r", "t", ".",
                           "d", "a", "t", "a">>

\* The loop over enabled_logs, in the order the dict yields its keys; os[name] is
\* the oracle of the create_table call for name.
RECURSIVE create_log_tables_loop(_, _, _)
create_log_tables_loop(order, w, os) ==
    IF order = <<>> THEN Return("True", w)
    ELSE LET created == call_create_table(Head(order), firehose_s3_bucket_name, <<>>,
                                          w, os[Head(order)])
         IN  IF created.ret \in {"KeyError", "ValueError"} THEN created
             ELSE create_log_tables_loop(Tail(order), created.w, os)

create_log_tables(w, order, os) ==
    IF ~w.firehose THEN Return("None", w)
    ELSE create_log_tables_loop(order, w, os)

(***************************************************************************)
(* The state machine: one CLI command at a time.  A command loads the      *)
(* configuration from disk, runs its operation to the end and exits.       *)
(***************************************************************************)
TableCE == <<"c", "_", "e">>

\* The table names given on the command line, and the names tables can have.
TableInputs == {ALERTS, TableCE, LogCE, LogUT}
DbNames == {firehose_log_name(t) : t \in TableInputs}

BucketB == <<"b">>
BucketInputs == {BucketB, firehose_s3_bucket_name}

PartitionChoices == {{}, {1}, 1..BigPartitions}

OverrideH == <<"h", "=", "i", "n", "t">>
OverrideH2 == <<"h", "=", "b", "i", "g", "i", "n", "t">>
OverrideDX == <<"d", "_", "x", "=">> \o TypeString
OverrideZ == <<"z", "=", "i", "n", "t">>
OverrideNoEq == <<"h">>
OverrideEnvelope == SubSeq(ENVELOPE_KEYS, 2, Len(ENVELOPE_KEYS) - 1) \o <<"=">> \o TypeString

\* The values of --schema-override, in the order the loop visits them.
OverrideInputs == {<<>>, <<OverrideH>>, <<OverrideZ>>, <<OverrideH, OverrideH2>>,
                   <<OverrideDX, OverrideZ>>, <<OverrideH, OverrideNoEq>>,
                   <<OverrideEnvelope>>}

Oracles == [exists_ok : BOOLEAN, query_ok : BOOLEAN, fetch_ok : BOOLEAN,
            drop_ok : BOOLEAN, alter_ok : BOOLEAN, confirmed : BOOLEAN,
            remaining : SUBSET DbNames]

\* An outcome no call of the operation asks for is left at its default, so that
\* each course of the operation is drawn once.
CreateOracles == {o \in Oracles : /\ o.fetch_ok /\ o.drop_ok /\ o.alter_ok
                                  /\ o.confirmed /\ o.remaining = {}}
RebuildOracles == {o \in Oracles :
                      /\ o.confirmed /\ o.remaining = {}
                      /\ (~o.fetch_ok => o.drop_ok)
                      /\ (~o.drop_ok => o.exists_ok /\ o.query_ok)
                      /\ (~o.query_ok => o.alter_ok)}
DropOracles == {o \in Oracles : /\ o.exists_ok /\ o.query_ok /\ o.fetch_ok /\ o.alter_ok
                                /\ (o.drop_ok /\ o.confirmed => o.remaining = {})
                                /\ (~o.confirmed => o.drop_ok /\ o.remaining = {})}

\* The orders in which a dict with the keys S can yield them.
Orders(S) == {q \in [1..Cardinality(S) -> S] : \A i, j \in DOMAIN q : q[i] = q[j] => i = j}

NoBuckets == [b \in {} |-> "data"]

Op(name, table, bucket, schema_override) ==
    [name |-> name, table |-> table, bucket |-> bucket,
     schema_override |-> schema_override]

NoOp == Op("none", <<>>, <<>>, <<>>)

\* The world at the start of a command: the configuration as loaded from disk.
World ==
    [tables |-> tables, parts |-> parts, buckets |-> persisted, persisted |-> persisted,
     firehose |-> firehose, logs |-> logs, files |-> <<>>, calls |-> <<>>,
     writes |-> 0, stmt |-> NoStmt]

\* The command has run operation o with the outcome r.
Ran(o, r) ==
    /\ op.name = "none"
    /\ op' = o
    /\ result' = r.ret
    /\ tables' = r.w.tables
    /\ parts' = r.w.parts
    /\ buckets' = r.w.buckets
    /\ persisted' = r.w.persisted
    /\ files' = r.w.files
    /\ calls' = r.w.calls
    /\ writes' = r.w.writes
    /\ stmt' = r.w.stmt
    /\ UNCHANGED <<firehose, logs>>

Init ==
    /\ tables \in SUBSET DbNames
    /\ parts \in [DbNames -> PartitionChoices]
    /\ \A t \in DbNames \ tables : parts[t] = {}
    /\ persisted \in {NoBuckets, (BucketB :> "alerts")}
    /\ buckets = persisted
    /\ firehose \in BOOLEAN
    /\ logs \in LogConfigs
    /\ files = <<>>
    /\ op = NoOp
    /\ calls = <<>>
    /\ writes = 0
    /\ result = "None"
    /\ stmt = NoStmt

CreateTable ==
    \E table \in TableInputs, bucket \in BucketInputs,
       schema_override \in OverrideInputs, o \in CreateOracles :
        Ran(Op("create-table", table, bucket, schema_override),
            create_table(table, bucket, schema_override, World, o))

RebuildPartitions ==
    \E table \in TableInputs, bucket \in BucketInputs, o \in RebuildOracles :
        Ran(Op("rebuild-partitions", table, bucket, <<>>),
            rebuild_partitions(table, bucket, World, o))

DropAllTables ==
    \E o \in DropOracles :
        Ran(Op("drop-all-tables", <<>>, <<>>, <<>>), drop_all_tables(World, o))

CreateLogTables ==
    \E order \in Orders(load_enabled_log_sources(logs)),
       os \in [load_enabled_log_sources(logs) -> CreateOracles] :
        Ran(Op("create_log_tables", <<>>, <<>>, <<>>),
            create_log_tables(World, order, os))

\* The command exits: what it held in memory is gone.
Exit ==
    /\ op.name # "none"
    /\ op' = NoOp
    /\ calls' = <<>>
    /\ writes' = 0
    /\ result' = "None"
    /\ files' = <<>>
    /\ stmt' = NoStmt
    /\ buckets' = persisted
    /\ UNCHANGED <<tables, parts, persisted, firehose, logs>>

Next == CreateTable \/ RebuildPartitions \/ DropAllTables \/ CreateLogTables \/ Exit

Spec == Init /\ [][Next]_vars

(***************************************************************************)
(* The schema translator on its own: a schema is drawn, then rendered.     *)
(***************************************************************************)
\* Column names and sub-keys to draw from; the bounds say how many are used.
KeyPool == <<quoted(<<"b">>), quoted(<<"a">>), quoted(<<"a", "b">>),
             quoted(<<"a", "_">>), quoted(<<"b", "a">>)>>
SubKeyPool == <<<<"y">>, <<"x">>, <<"x", "y">>, <<"_">>>>
SubKeyType(k) == IF Len(k) = 1 THEN TypeString ELSE TypeBigint

First(pool, n) == {pool[i] : i \in 1..(IF n < Len(pool) THEN n ELSE Len(pool))}

SchemaValues ==
    {StrValue(TypeString), StrValue(TypeInt), OtherValue}
        \cup {DictValue([k \in S |-> SubKeyType(k)]) :
                 S \in SUBSET First(SubKeyPool, MaxSubKeys)}

SchemaInputs ==
    UNION {[S -> SchemaValues] : S \in SUBSET First(KeyPool, MaxSchemaKeys)}

InitSchema ==
    /\ tables = {}
    /\ parts = [t \in DbNames |-> {}]
    /\ persisted = NoBuckets
    /\ buckets = NoBuckets
    /\ firehose = FALSE
    /\ logs = LogsPlain
    /\ files = <<>>
    /\ op = NoOp
    /\ calls = <<>>
    /\ writes = 0
    /\ result = "None"
    /\ \E schema \in SchemaInputs, table_name \in {TableCE}, bucket \in BucketInputs :
           stmt = [schema |-> schema, table_name |-> table_name, bucket |-> bucket,
                   text |-> <<>>]

ConstructStatement ==
    /\ op.name = "none"
    /\ op' = Op("_construct_create_table_statement", stmt.table_name, stmt.bucket, <<>>)
    /\ stmt' = [stmt EXCEPT !.text = construct_create_table_statement(
                                         stmt.schema, stmt.table_name, stmt.bucket)]
    /\ UNCHANGED <<tables, parts, buckets, persisted, firehose, logs, files, calls,
                   writes, result>>

NextSchema == ConstructStatement

SpecSchema == InitSchema /\ [][NextSchema]_vars

(***************************************************************************)
(* Properties of the schema translator.                                    *)
(***************************************************************************)
\* The concatenation of a sequence of texts.
RECURSIVE Concat(_)
Concat(ts) == IF ts = <<>> THEN <<>> ELSE Concat(SubSeq(ts, 1, Len(ts) - 1)) \o ts[Len(ts)]

\* The texts with sep between each two neighbours.
Separated(ts, sep) ==
    Concat([i \in 1..(IF ts = <<>> THEN 0 ELSE 2 * Len(ts) - 1) |->
               IF i % 2 = 1 THEN ts[(i + 1) \div 2] ELSE sep])

\* The keys of S in lexicographic order: the i-th is the one with i - 1 smaller keys.
InOrder(S) ==
    [i \in 1..Cardinality(S) |->
        CHOOSE k \in S : Cardinality({j \in S : StrLess(j, k)}) = i - 1]

\* What the claim says a column renders as.
Rendering(schema, k) ==
    IF schema[k].tag = "str" THEN k \o <<" ">> \o schema[k].type
    ELSE LET sub == schema[k].sub
             ks == InOrder(DOMAIN sub)
         IN  k \o <<" struct<">>
               \o Separated([i \in 1..Len(ks) |-> ks[i] \o <<":">> \o sub[ks[i]]], <<", ">>)
               \o <<">">>

ColumnList(schema) ==
    LET ks == InOrder({k \in DOMAIN schema : schema[k].tag \in {"str", "dict"}})
    IN  Separated([i \in 1..Len(ks) |-> Rendering(schema, ks[i])], <<", ">>)

\* C10: the statement _construct_create_table_statement builds holds, between
\* "(" and ")", the columns in lexicographic order of their names joined by ", ":
\* a str entry as "name type", a dict entry as "name struct<k1:t1, k2:t2>" with its
\* sub-keys in lexicographic order, each once, and nothing for any other entry.
C10_ColumnListSortedAndExact ==
    op.name = "_construct_create_table_statement" =>
        stmt.text = <<"CREATE EXTERNAL TABLE ">> \o stmt.table_name \o <<" (">>
                      \o ColumnList(stmt.schema)
                      \o <<") PARTITIONED BY (dt string) STORED AS PARQUET LOCATION 's3://">>
                      \o stmt.bucket \o <<"/">> \o stmt.table_name \o <<"/'">>

\* A statement has been built from a schema with a str, a dict with two sub-keys and
\* an entry that is neither.
C10_Witness ==
    /\ op.name = "_construct_create_table_statement"
    /\ \E a, b, c \in DOMAIN stmt.schema :
          /\ stmt.schema[a].tag = "str"
          /\ stmt.schema[b].tag = "dict" /\ Cardinality(DOMAIN stmt.schema[b].sub) = 2
          /\ stmt.schema[c].tag = "other"
          /\ StrLess(b, a)

(***************************************************************************)
(* Properties of the table lifecycle operations.                           *)
(***************************************************************************)
IsAlter(c) == c.fn = "run_query" /\ c.arg.kind = "ALTER"
IsCreate(c) == c.fn = "run_query" /\ c.arg.kind = "CREATE"

\* The steps of rebuild_partitions among the calls of a command: the calls that
\* create_table makes inside its step are left out.
IsStep(c) == c.fn \in {"get_table_partitions", "drop_table", "create_table"} \/ IsAlter(c)
Steps == SelectSeq(calls, IsStep)

Rebuilding == op.name = "rebuild-partitions"
Sanitized == firehose_log_name(op.table)

\* The drop succeeded and the create_table after it returned failure.
DroppedNotRecreated ==
    /\ Rebuilding
    /\ Len(Steps) >= 3
    /\ Steps[2].ret = "True"
    /\ Steps[3].ret = "False"

\* C1: when rebuild_partitions has dropped the table and its create_table call then
\* returns failure, rebuild_partitions returns failure, the table is absent, and
\* nothing is done after the failed create_table: no further step, no second
\* attempt to create the table, no successful query.
C1_TableLeftAbsent ==
    DroppedNotRecreated =>
        /\ result = "False"
        /\ Sanitized \notin tables
        /\ parts[Sanitized] = {}
        /\ Len(Steps) = 3
        /\ Cardinality({i \in DOMAIN calls : calls[i].fn = "run_query"}) <= 1
        /\ \A i \in DOMAIN calls : calls[i].fn = "run_query" => calls[i].ret = "False"
        /\ files = <<>>

\* The drop succeeded and the CREATE query of the create_table step failed.
C1_Witness ==
    /\ DroppedNotRecreated
    /\ \E i \in DOMAIN calls : IsCreate(calls[i]) /\ calls[i].ret = "False"

\* C2: rebuild_partitions runs get_table_partitions, drop_table, create_table (with
\* the table and bucket given and no schema override) and run_query of the ALTER
\* statement for the partitions fetched at the start, in this order; each step is
\* run only when the one before it succeeded and is run when it did (unless the
\* statement is written to a file instead), and the result is success exactly when
\* the ALTER query succeeded.
C2_RebuildStepsInOrder ==
    Rebuilding =>
        LET n == Len(Steps)
        IN  /\ n \in 1..4
            /\ Steps[1].fn = "get_table_partitions" /\ Steps[1].arg = Sanitized
            /\ (n >= 2) = (Steps[1].ret # {})
            /\ n >= 2 => /\ Steps[2].fn = "drop_table" /\ Steps[2].arg = Sanitized
                         /\ (n >= 3) = (Steps[2].ret = "True")
            /\ n >= 3 => /\ Steps[3].fn = "create_table"
                         /\ Steps[3].arg = [table |-> op.table, bucket |-> op.bucket,
                                            schema_override |-> <<>>]
                         /\ n = 4 => Steps[3].ret = "True"
                         /\ Steps[3].ret = "True" => n = 4 \/ files # <<>>
            /\ n = 4 => /\ IsAlter(Steps[4])
                        /\ Steps[4].arg.partitions = Steps[1].ret
                        /\ Steps[4].arg.table_name = Sanitized
                        /\ Steps[4].arg.bucket = op.bucket
                        /\ calls[Len(calls)] = Steps[4]
            /\ (result = "True") = (n = 4 /\ Steps[4].ret = "True")

\* A rebuild that ran all four steps and succeeded, for more than one partition.
C2_Witness ==
    /\ Rebuilding
    /\ result = "True"
    /\ Len(Steps) = 4
    /\ Cardinality(Steps[1].ret) > 1

\* The ALTER statement of the running rebuild, once the table has been created again.
Regenerated ==
    [kind |-> "ALTER", table_name |-> Sanitized, bucket |-> op.bucket,
     partitions |-> Steps[1].ret]

\* C3: when the table has been created again and the ALTER statement is longer than
\* 262144 characters, rebuild_partitions writes that statement to
\* partitions_<sanitized table>.txt, returns failure and runs no ALTER query.
C3_LongStatementWrittenToFile ==
    (/\ Rebuilding
     /\ Len(Steps) >= 3
     /\ Steps[3].ret = "True"
     /\ statement_length(Regenerated) > 262144) =>
        /\ files = ((<<"partitions_">> \o Sanitized \o <<".txt">>) :> Regenerated)
        /\ result = "False"
        /\ \A i \in DOMAIN calls : ~IsAlter(calls[i])

\* A rebuild whose statement was too long, for a table name that had to be sanitized.
C3_Witness ==
    /\ Rebuilding
    /\ Len(Steps) >= 3
    /\ Steps[3].ret = "True"
    /\ statement_length(Regenerated) > 262144
    /\ op.table # Sanitized

\* A command starts (and, in this model, runs to its end) in this step.
Starts(name) == op.name = "none" /\ op'.name = name

\* C4: a rebuild_partitions whose get_table_partitions call returns no partitions
\* calls neither drop_table nor create_table nor run_query, leaves the tables, their
\* partitions and the configuration as they were and returns failure.
C4_NoPartitionsNoRebuild ==
    [][(Starts("rebuild-partitions") /\ calls'[2].ret = {}) =>
          /\ Len(calls') = 2
          /\ calls'[2].fn = "get_table_partitions"
          /\ result' = "False"
          /\ tables' = tables
          /\ parts' = parts
          /\ buckets' = persisted
          /\ persisted' = persisted
          /\ writes' = 0]_vars

\* A rebuild found no partitions for a table that exists.
C4_Witness ==
    /\ Rebuilding
    /\ calls[2].ret = {}
    /\ Sanitized \in tables

\* The calls of the command that has run in this step.
ChecksTrue == {i \in DOMAIN calls' : calls'[i].fn = "check_table_exists"
                                      /\ calls'[i].ret = "True"}

\* C5: a create_table whose check_table_exists call returns true returns failure
\* and issues no query; run from the command line it leaves the configuration in
\* memory and on disk, and the tables, as they were.
C5_ExistingTableNoDDL ==
    [][(op.name = "none" /\ op'.name # "none") =>
          /\ \A i \in ChecksTrue :
                /\ i < Len(calls') => calls'[i + 1].fn # "run_query"
                /\ i > 2 => /\ calls'[i - 2].fn = "create_table"
                            /\ calls'[i - 2].ret = "False"
          /\ (op'.name = "create-table" /\ ChecksTrue # {}) =>
                /\ result' = "False"
                /\ \A i \in DOMAIN calls' : calls'[i].fn # "run_query"
                /\ buckets' = persisted
                /\ persisted' = persisted
                /\ writes' = 0
                /\ tables' = tables]_vars

\* create-table was run for a table that exists.
C5_Witness ==
    /\ op.name = "create-table"
    /\ \E i \in DOMAIN calls : calls[i].fn = "check_table_exists" /\ calls[i].ret = "True"

\* The bucket the create_table calls of the command are given, and whether one of
\* them has to register it.
BucketGiven == IF op'.name = "create_log_tables" THEN firehose_s3_bucket_name
               ELSE op'.bucket
MustRegister ==
    /\ \E i \in DOMAIN calls' : IsCreate(calls'[i]) /\ calls'[i].ret = "True"
    /\ op'.name = "create_log_tables" \/ op'.table # ALERTS
    /\ BucketGiven \notin DOMAIN persisted

\* C6: create_table registers its bucket as a "data" bucket and calls config.write()
\* exactly when its CREATE query succeeded, the table is not "alerts" and the bucket
\* was not registered; in every other case the configuration in memory and on disk
\* is unchanged and write() is not called.
C6_BucketRegisteredExactlyWhen ==
    [][(op.name = "none"
            /\ op'.name \in {"create-table", "rebuild-partitions", "create_log_tables"}) =>
          IF MustRegister
          THEN /\ buckets' = (BucketGiven :> "data") @@ persisted
               /\ persisted' = buckets'
               /\ writes' = 1
          ELSE /\ buckets' = persisted
               /\ persisted' = persisted
               /\ writes' = 0]_vars

\* create-table has registered a bucket beside one registered before.
C6_Witness ==
    /\ op.name = "create-table"
    /\ writes = 1
    /\ Cardinality(DOMAIN persisted) = 2

\* C7: drop_all_tables whose confirmation is declined makes no client and calls
\* nothing on one, leaves the tables as they were and returns failure; when confirmed
\* it calls drop_all_tables on the client once and returns what that call returned.
C7_DropAllNeedsConfirmation ==
    [][Starts("drop-all-tables") =>
          /\ calls'[1].fn = "continue_prompt"
          /\ IF calls'[1].ret = "False"
             THEN /\ Len(calls') = 1
                  /\ result' = "False"
                  /\ tables' = tables /\ parts' = parts
             ELSE /\ Len(calls') = 3
                  /\ calls'[2].fn = "get_athena_client"
                  /\ calls'[3].fn = "drop_all_tables"
                  /\ result' = calls'[3].ret]_vars

\* drop_all_tables was declined while tables exist.
C7_Witness ==
    /\ op.name = "drop-all-tables"
    /\ calls[1].ret = "False"
    /\ tables # {}

\* The create_table calls of the command for the source named n.
CallsFor(n) == {i \in DOMAIN calls : calls[i].fn = "create_table" /\ calls[i].arg.table = n}

\* C8: create_log_tables calls nothing and changes nothing when Firehose is
\* disabled; when it is enabled it calls create_table once for every enabled log
\* source, and that call issues a CREATE query unless check_table_exists returned
\* true, whatever happened to the sources before it.
C8_EveryEnabledSourceCreated ==
    op.name = "create_log_tables" =>
        IF ~firehose THEN calls = <<>> /\ writes = 0
        ELSE \A n \in load_enabled_log_sources(logs) :
                /\ Cardinality(CallsFor(n)) = 1
                /\ \A i \in CallsFor(n) :
                      /\ Len(calls) >= i + 2
                      /\ calls[i + 2].fn = "check_table_exists"
                      /\ IF calls[i + 2].ret = "True"
                         THEN Len(calls) > i + 2 => calls[i + 3].fn # "run_query"
                         ELSE Len(calls) > i + 2 /\ IsCreate(calls[i + 3])

\* The position of the '=' of an override, its column name and its type.
EqAt(s) == CHOOSE p \in 1..Len(s) : s[p] = "="
OverrideColumn(s) == <<Backtick>> \o SubSeq(s, 1, EqAt(s) - 1) \o <<Backtick>>
OverrideType(s) == SubSeq(s, EqAt(s) + 1, Len(s))

\* The Athena schema of the table of the command before the overrides.
BaseSchema == log_athena_schema(logs[replace_first_underscore(op.table)])

\* C9: in the schema create_table builds its query from for a log table, the
\* columns are those of the Athena schema of the log; a column no override names
\* keeps its type, and a column overrides name has the type of the last of them. An
\* override that names no column changes nothing.
C9_OverridesReplaceExistingColumnsOnly ==
    (op.name = "create-table" /\ op.table # ALERTS /\ stmt.text # <<>>) =>
        /\ DOMAIN stmt.schema = DOMAIN BaseSchema
        /\ \A c \in DOMAIN BaseSchema :
              LET hits == {i \in DOMAIN op.schema_override :
                              OverrideColumn(op.schema_override[i]) = c}
              IN  IF hits = {} THEN stmt.schema[c] = BaseSchema[c]
                  ELSE LET last == CHOOSE i \in hits : \A j \in hits : j <= i
                       IN  stmt.schema[c] =
                               [tag |-> "str", type |-> OverrideType(op.schema_override[last]),
                                sub |-> <<>>]

\* A query was built with one override for a column of the schema, and one for a
\* column it does not have.
C9_Witness ==
    /\ op.name = "create-table"
    /\ stmt.text # <<>>
    /\ op.schema_override = <<OverrideDX, OverrideZ>>

====
